---- MODULE Spec2Model ----
(***************************************************************************)
(* Reading-assessment services of modelo_analisis_IA.                      *)
(*                                                                         *)
(*   main.py, analisis_appweb.py : FastAPI services with the admission     *)
(*       flag app.state.analisis_en_curso and the background job           *)
(*       realizar_analisis_completo;                                       *)
(*   transcribir.py              : the same pipeline run as a script.      *)
(*                                                                         *)
(* Part I models difflib.SequenceMatcher.get_opcodes and the three         *)
(* variants of analizar_diferencias over token sequences.  Part II models  *)
(* the admission flag and the job pipeline step by step.                   *)
(*                                                                         *)
(* Indices are Python's: 0-based, half-open ranges; a[i] of Python is      *)
(* a[i+1] here.  "precision" is kept in hundredths of a percent point      *)
(* (6667 stands for 66.67) so that round(x, 2) is an integer operation.    *)
(***************************************************************************)
EXTENDS Naturals, Integers, Sequences, FiniteSets, TLC

VARIABLES
    \* ---- Part I: one call of analizar_diferencias
    modulo,            \* which file's variant is called / deployed
    ref_words,         \* texto_ref.split()
    audio_words,       \* texto_audio.split()
    resultado,         \* what the call returned (.hecho: whether it has)
    \* ---- Part III: one call of calcular_fluidez
    palabras,          \* transcripcion['text'].split()
    segments,          \* transcripcion['segments']: start and end, in half seconds
    fluidez,           \* what the call returned or raised (.hecho: whether it has)
    \* ---- Part II: the service
    analisis_en_curso, \* app.state.analisis_en_curso: "ausente", "True", "False"
    programadas,       \* background tasks added and not yet started
    pc,                \* position of the running job ("idle": none running)
    disco,             \* temporary files present on disk
    duracion,          \* duration in seconds of the downloaded audio (0: none)
    n_dif,             \* non-equal opcodes of the current job's alignment
    escritos,          \* tables the current job inserted into, in order
    registros,         \* discrepancy records the current job inserted, each
                       \* named by its place among the non-equal opcodes
    traza,             \* pipeline steps the current job has executed, in order
    fallo,             \* index in traza of the first step that failed (0: none)
    excepcion,         \* an exception is propagating out of the job's try body
    respuesta,         \* status code of the last /programar-analisis response
    solicitudes,       \* requests handled so far
    terminados         \* jobs ended so far

varsFluidez == << palabras, segments, fluidez >>

varsDiff == << modulo, ref_words, audio_words, resultado, varsFluidez >>

varsTrabajo == << pc, disco, duracion, n_dif, escritos, registros, traza, fallo,
                  excepcion >>

varsServicio == << analisis_en_curso, programadas, respuesta, solicitudes,
                   terminados >>

vars == << modulo, ref_words, audio_words, resultado, palabras, segments,
           fluidez, analisis_en_curso,
           programadas, pc, disco, duracion, n_dif, escritos, registros, traza,
           fallo,
           excepcion, respuesta, solicitudes, terminados >>

(***************************************************************************)
(* Bounds of the model and constants of the program.                       *)
(***************************************************************************)
MaxLen == 3                    \* longest enumerated token sequence
MaxSolicitudes == 3            \* requests and script runs per behaviour
MaxDif == 11                   \* most non-equal opcodes of one job
MaxSeg == 3                    \* most enumerated segments of a transcription
MaxTiempo == 8                 \* latest enumerated time, in half seconds
MaxPalabras == 3               \* most words of an enumerated transcription
Palabras == {"el", "gato", "come"}

MAX_DURACION_AUDIO == 120
PDF_TEMP == "temp_ref.pdf"
AUDIO_TEMP == "temp_audio.mp3"
LIMITE_GUARDADOS == 5          \* diferencias[:5] in guardar_resultados

LIMITE_PALABRAS == 500         \* texto.split()[:500]
LIMITE_DIFERENCIAS == 10       \* diferencias[:10]

Max(x, y) == IF x >= y THEN x ELSE y
Min(x, y) == IF x <= y THEN x ELSE y

\* Python's s[i:j] for 0 <= i <= j <= len(s), and s[:n].
Slice(s, i, j) == SubSeq(s, i + 1, j)
Primeros(s, n) == SubSeq(s, 1, Min(n, Len(s)))

\* " ".join(words); halved so that long sequences need little nesting.
RECURSIVE join(_)
join(words) ==
    IF words = << >> THEN ""
    ELSE IF Len(words) = 1 THEN words[1]
    ELSE LET h == Len(words) \div 2
         IN  join(SubSeq(words, 1, h)) \o " " \o join(SubSeq(words, h + 1, Len(words)))

\* The least element of a non-empty set of naturals.
Minimo(S) == CHOOSE d \in S : \A e \in S : d <= e

(***************************************************************************)
(* Part I.  difflib.SequenceMatcher(None, a, b), as the three variants of  *)
(* analizar_diferencias call it: no junk predicate, autojunk left on.      *)
(***************************************************************************)

\* Elements of b that autojunk drops from the index b2j: those occurring
\* more than len(b) // 100 + 1 times, when len(b) >= 200.
bpopular(b) ==
    IF Len(b) < 200 THEN {}
    ELSE { w \in { b[n] : n \in 1 .. Len(b) } :
             Cardinality({ n \in 1 .. Len(b) : b[n] = w }) > (Len(b) \div 100) + 1 }

\* Length of the run of indexed matches a[i..] = b[j..] inside the window:
\* the first offset at which the window ends or the elements stop matching.
corrida(a, b, pop, i, j, ahi, bhi) ==
    LET lim == Min(ahi - i, bhi - j)
    IN  Minimo({ d \in 0 .. lim : \/ d = lim
                                  \/ a[i + d + 1] # b[j + d + 1]
                                  \/ b[j + d + 1] \in pop })

\* How far a block extends backwards from (i, j) / forwards from (i, j)
\* over equal elements (no element is junk: isjunk is None).
atras(a, b, i, j, alo, blo) ==
    LET lim == Min(i - alo, j - blo)
    IN  Minimo({ d \in 0 .. lim : d = lim \/ a[i - d] # b[j - d] })

adelante(a, b, i, j, ahi, bhi) ==
    LET lim == Min(ahi - i, bhi - j)
    IN  Minimo({ d \in 0 .. lim : d = lim \/ a[i + d + 1] # b[j + d + 1] })

\* Definitions below hand intermediate values on as arguments: each value
\* of the Python code is computed once and named by a parameter.

\* The run length of every indexed match (i, j) of the window: the j2len
\* table of find_longest_match, by starting point.
corridas(a, b, pop, alo, ahi, blo, bhi) ==
    [ ij \in { p \in (alo .. ahi - 1) \X (blo .. bhi - 1) :
                 a[p[1] + 1] = b[p[2] + 1] /\ b[p[2] + 1] \notin pop }
      |-> corrida(a, b, pop, ij[1], ij[2], ahi, bhi) ]

\* Mutant of antes: the comparison of lengths is the wrong way round.
antes_invertido(k, p, q) ==
    \/ k[p] < k[q]
    \/ k[p] = k[q] /\ p[1] < q[1]
    \/ k[p] = k[q] /\ p[1] = q[1] /\ p[2] <= q[2]

\* p is at least as good a block start as q: longer, or as long and
\* earlier in a, or as long, at the same place in a and not later in b.
antes(k, p, q) ==
    \/ k[p] > k[q]
    \/ k[p] = k[q] /\ p[1] < q[1]
    \/ k[p] = k[q] /\ p[1] = q[1] /\ p[2] <= q[2]

\* besti, bestj, bestsize after the scan; (alo, blo, 0) if nothing matches.
mejor(k, alo, blo) ==
    IF DOMAIN k = {} THEN << alo, blo, 0 >>
    ELSE LET m == CHOOSE p \in DOMAIN k : \A q \in DOMAIN k : antes(k, p, q)
         IN  << m[1], m[2], k[m] >>

\* The two while loops that extend the block over equal elements.
retroceder(x, back) == << x[1] - back, x[2] - back, x[3] + back >>

avanzar(a, b, x, ahi, bhi) ==
    << x[1], x[2], x[3] + adelante(a, b, x[1] + x[3], x[2] + x[3], ahi, bhi) >>

extender(a, b, x, alo, ahi, blo, bhi) ==
    avanzar(a, b, retroceder(x, atras(a, b, x[1], x[2], alo, blo)), ahi, bhi)

\* find_longest_match(alo, ahi, blo, bhi): the longest block of indexed
\* matches, the earliest in a and then the earliest in b among the longest,
\* then extended on both ends over equal elements; (alo, blo, 0) if none.
find_longest_match(a, b, alo, ahi, blo, bhi) ==
    extender(a, b,
             mejor(corridas(a, b, bpopular(b), alo, ahi, blo, bhi), alo, blo),
             alo, ahi, blo, bhi)

\* The blocks get_matching_blocks collects, sorted: those left of the
\* longest match x, the match, those right of it.
RECURSIVE bloques(_, _, _, _, _, _)
partir(a, b, alo, ahi, blo, bhi, x) ==
    IF x[3] = 0 THEN << >>
    ELSE (IF alo < x[1] /\ blo < x[2]
          THEN bloques(a, b, alo, x[1], blo, x[2]) ELSE << >>)
         \o << x >> \o
         (IF x[1] + x[3] < ahi /\ x[2] + x[3] < bhi
          THEN bloques(a, b, x[1] + x[3], ahi, x[2] + x[3], bhi) ELSE << >>)

bloques(a, b, alo, ahi, blo, bhi) ==
    partir(a, b, alo, ahi, blo, bhi, find_longest_match(a, b, alo, ahi, blo, bhi))

\* Adjacent equal blocks are merged into one.
RECURSIVE colapsar(_, _, _)
colapsar(bs, n, actual) ==
    IF n > Len(bs)
    THEN IF actual[3] > 0 THEN << actual >> ELSE << >>
    ELSE IF actual[1] + actual[3] = bs[n][1] /\ actual[2] + actual[3] = bs[n][2]
    THEN colapsar(bs, n + 1, << actual[1], actual[2], actual[3] + bs[n][3] >>)
    ELSE (IF actual[3] > 0 THEN << actual >> ELSE << >>)
         \o colapsar(bs, n + 1, bs[n])

\* Mutant of get_matching_blocks: the closing (la, lb, 0) block is missing.
get_matching_blocks_sin_cierre(a, b) ==
    colapsar(bloques(a, b, 0, Len(a), 0, Len(b)), 1, << 0, 0, 0 >>)

get_matching_blocks(a, b) ==
    colapsar(bloques(a, b, 0, Len(a), 0, Len(b)), 1, << 0, 0, 0 >>)
        \o << << Len(a), Len(b), 0 >> >>

\* Mutant of tag_de: "delete" and "insert" are exchanged.
tag_de_cambiado(i, j, ai, bj) ==
    IF i < ai /\ j < bj THEN "replace"
    ELSE IF i < ai THEN "insert"
    ELSE IF j < bj THEN "delete"
    ELSE ""

\* get_opcodes(): 5-tuples (tag, i1, i2, j1, j2).
tag_de(i, j, ai, bj) ==
    IF i < ai /\ j < bj THEN "replace"
    ELSE IF i < ai THEN "delete"
    ELSE IF j < bj THEN "insert"
    ELSE ""

RECURSIVE opcodes_desde(_, _, _, _)
opcodes_desde(bs, n, i, j) ==
    IF n > Len(bs) THEN << >>
    ELSE (IF tag_de(i, j, bs[n][1], bs[n][2]) # ""
          THEN << << tag_de(i, j, bs[n][1], bs[n][2]), i, bs[n][1], j, bs[n][2] >> >>
          ELSE << >>)
         \o (IF bs[n][3] > 0
             THEN << << "equal", bs[n][1], bs[n][1] + bs[n][3],
                        bs[n][2], bs[n][2] + bs[n][3] >> >>
             ELSE << >>)
         \o opcodes_desde(bs, n + 1, bs[n][1] + bs[n][3], bs[n][2] + bs[n][3])

get_opcodes(a, b) == opcodes_desde(get_matching_blocks(a, b), 1, 0, 0)

\* round(num / den * 100, 2) in hundredths, for den > 0: the nearest
\* hundredth, an exact tie going to the even one.
round2(num, den) ==
    LET q == (num * 10000) \div den
        r == (num * 10000) % den
    IN  IF 2 * r > den \/ (2 * r = den /\ q % 2 = 1) THEN q + 1 ELSE q

\* The discrepancy record appended for a non-equal opcode.
diferencia(op, rw, aw) ==
    [ tipo             |-> op[1],
      palabra_original |-> join(Slice(rw, op[2], op[3])),
      palabra_dicha    |-> join(Slice(aw, op[4], op[5])) ]

\* errores_recurrentes[error_key] = errores_recurrentes.get(error_key, 0) + 1
contar(errores, clave) ==
    IF clave \in DOMAIN errores
    THEN [ errores EXCEPT ![clave] = @ + 1 ]
    ELSE [ c \in DOMAIN errores \cup { clave } |->
             IF c = clave THEN 1 ELSE errores[c] ]

\* The for loop of main.py and transcribir.py over the opcodes, from the
\* n-th on, with the accumulators it updates.
\* Mutant of cuerpo: a non-equal opcode counts its reference span only.
cuerpo_solo_referencia(op, d, acc) ==
    IF op[1] = "equal"
    THEN [ acc EXCEPT !.correctas = @ + (op[3] - op[2]) ]
    ELSE [ acc EXCEPT
             !.incorrectas = @ + (op[3] - op[2]),
             !.errores = contar(@, << d.palabra_original, d.palabra_dicha >>),
             !.diferencias = Append(@, d) ]

\* One pass of the loop body: the accumulators after opcode op.
cuerpo(op, d, acc) ==
    IF op[1] = "equal"
    THEN [ acc EXCEPT !.correctas = @ + (op[3] - op[2]) ]
    ELSE [ acc EXCEPT
             !.incorrectas = @ + Max(op[3] - op[2], op[5] - op[4]),
             !.errores = contar(@, << d.palabra_original, d.palabra_dicha >>),
             !.diferencias = Append(@, d) ]

RECURSIVE bucle(_, _, _, _, _)
bucle(ops, n, rw, aw, acc) ==
    IF n > Len(ops) THEN acc
    ELSE bucle(ops, n + 1, rw, aw, cuerpo(ops[n], diferencia(ops[n], rw, aw), acc))

\* sum(i2-i1 for op,i1,i2,j1,j2 in matcher.get_opcodes() if op == "equal")
RECURSIVE suma_equal(_, _)
suma_equal(ops, n) ==
    IF n > Len(ops) THEN 0
    ELSE (IF ops[n][1] = "equal" THEN ops[n][3] - ops[n][2] ELSE 0)
         + suma_equal(ops, n + 1)

\* The second loop of analisis_appweb.py: one record per non-equal opcode.
RECURSIVE bucle_appweb(_, _, _, _)
bucle_appweb(ops, n, rw, aw) ==
    IF n > Len(ops) THEN << >>
    ELSE (IF ops[n][1] # "equal" THEN << diferencia(ops[n], rw, aw) >> ELSE << >>)
         \o bucle_appweb(ops, n + 1, rw, aw)

\* Mutant of calc_precision: the percentage is cut, not rounded.
calc_precision_truncada(correctas, total) ==
    IF total > 0 THEN (correctas * 10000) \div total ELSE 0

\* precision = round((correctas / total) * 100, 2) if total > 0 else 0
calc_precision(correctas, total) ==
    IF total > 0 THEN round2(correctas, total) ELSE 0

\* incorrectas as analisis_appweb.py returns it: total - correctas.
incorrectas_appweb(total, correctas) == total - correctas

\* What analizar_diferencias of main.py returns after its loop, with the
\* sequences it aligned ("palabras") and the opcodes it went through.
retorno_main(rw, aw, ops, acc) ==
    [ hecho       |-> TRUE,
      palabras    |-> << rw, aw >>,
      opcodes     |-> ops,
      diferencias |-> acc.diferencias,
      correctas   |-> acc.correctas,
      incorrectas |-> acc.incorrectas,
      precision   |-> calc_precision(acc.correctas, acc.correctas + acc.incorrectas),
      errores     |-> acc.errores ]

recorrer_main(rw, aw, ops) ==
    retorno_main(rw, aw, ops,
                 bucle(ops, 1, rw, aw,
                       [ correctas |-> 0, incorrectas |-> 0,
                         errores |-> << >>, diferencias |-> << >> ]))

\* analizar_diferencias of main.py (texto.split() given as token sequences).
analizar_main(texto_ref, texto_audio) ==
    recorrer_main(texto_ref, texto_audio, get_opcodes(texto_ref, texto_audio))

\* analizar_diferencias of transcribir.py: the same loop, and no recurring
\* errors returned.
retorno_transcribir(r) ==
    [ hecho       |-> TRUE,
      palabras    |-> r.palabras,
      opcodes     |-> r.opcodes,
      diferencias |-> r.diferencias,
      correctas   |-> r.correctas,
      incorrectas |-> r.incorrectas,
      precision   |-> r.precision ]

analizar_transcribir(texto_ref, texto_audio) ==
    retorno_transcribir(analizar_main(texto_ref, texto_audio))

\* analizar_diferencias of analisis_appweb.py: total = len(ref_words).
retorno_appweb(rw, aw, ops, correctas, total) ==
    [ hecho       |-> TRUE,
      palabras    |-> << rw, aw >>,
      opcodes     |-> ops,
      diferencias |-> Primeros(bucle_appweb(ops, 1, rw, aw), LIMITE_DIFERENCIAS),
      correctas   |-> correctas,
      incorrectas |-> incorrectas_appweb(total, correctas),
      precision   |-> calc_precision(correctas, total) ]

recorrer_appweb(rw, aw, ops) ==
    retorno_appweb(rw, aw, ops, suma_equal(ops, 1), Len(rw))

alinear_appweb(rw, aw) == recorrer_appweb(rw, aw, get_opcodes(rw, aw))

analizar_appweb(texto_ref, texto_audio) ==
    alinear_appweb(Primeros(texto_ref, LIMITE_PALABRAS),
                   Primeros(texto_audio, LIMITE_PALABRAS))

analizar_diferencias(m, texto_ref, texto_audio) ==
    IF m = "main" THEN analizar_main(texto_ref, texto_audio)
    ELSE IF m = "appweb" THEN analizar_appweb(texto_ref, texto_audio)
    ELSE analizar_transcribir(texto_ref, texto_audio)

Modulos == { "main", "appweb", "transcribir" }

(***************************************************************************)
(* Part II.  The admission flag and the job.                               *)
(*                                                                         *)
(* A request handler runs to completion on the event loop, so each is one  *)
(* action.  The job is split at its blocking calls; handlers are allowed   *)
(* between any two of them, which covers every scheduling of the loop.     *)
(***************************************************************************)
Web == { "main", "appweb" }

\* Mutant of ocupado: the handler does not look at the flag.
ocupado_sin_comprobar(bandera) == FALSE

\* hasattr(app.state, 'analisis_en_curso') and app.state.analisis_en_curso
ocupado(bandera) == bandera = "True"

\* The handler's "except Exception as e: raise HTTPException(status_code=500)"
\* around a try body that raised HTTPException(status_code=codigo):
\* HTTPException is an Exception, so the clause catches it.
responder_excepcion(codigo) == 500

\* Mutant of add_task: the task is not added.
add_task_perdida(tareas) == tareas

\* background_tasks.add_task(realizar_analisis_completo, ...)
add_task(tareas) == tareas + 1

\* POST /programar-analisis
programar_analisis ==
    /\ modulo \in Web
    /\ solicitudes < MaxSolicitudes
    /\ solicitudes' = solicitudes + 1
    /\ IF ocupado(analisis_en_curso)
       THEN /\ respuesta' = responder_excepcion(429)
            /\ UNCHANGED << analisis_en_curso, programadas >>
       ELSE /\ analisis_en_curso' = "True"
            /\ programadas' = add_task(programadas)
            /\ respuesta' = 200
    /\ UNCHANGED << terminados, varsTrabajo, varsDiff >>

\* The state in which a job starts.
comenzar(primero) ==
    /\ pc' = primero
    /\ duracion' = 0
    /\ n_dif' = 0
    /\ escritos' = << >>
    /\ registros' = << >>
    /\ traza' = << >>
    /\ fallo' = 0
    /\ excepcion' = FALSE

\* The background task added by programar_analisis starts once the response
\* has been sent; tasks run one after the other on the loop.
iniciar_tarea ==
    /\ modulo \in Web
    /\ programadas > 0
    /\ pc = "idle"
    /\ programadas' = programadas - 1
    /\ comenzar("pdf")
    /\ UNCHANGED << disco, analisis_en_curso, respuesta, solicitudes, terminados,
                    varsDiff >>

\* python transcribir.py
ejecutar_script ==
    /\ modulo = "transcribir"
    /\ pc = "idle"
    /\ terminados < MaxSolicitudes
    /\ comenzar("conectar")
    /\ UNCHANGED << disco, varsServicio, varsDiff >>

\* A pipeline step is recorded, with whether it succeeded.
paso(nombre, ok) ==
    /\ traza' = Append(traza, nombre)
    /\ fallo' = IF ~ok /\ fallo = 0 THEN Len(traza) + 1 ELSE fallo

\* Where the job goes when a step raises out of the pipeline: the except /
\* finally clauses of realizar_analisis_completo, exit() in the script.
lanzar ==
    /\ pc' = IF modulo \in Web THEN "finally" ELSE "exit"
    /\ excepcion' = (modulo \in Web)

\* The files on disk after descargar_archivo(..., archivo_local): the
\* services open the local file before they download, the script after.
descargar_archivo(m, d, archivo_local, ok) ==
    IF m \in Web \/ ok THEN d \cup { archivo_local } ELSE d

conectar_supabase ==
    /\ pc = "conectar"
    /\ \E ok \in BOOLEAN :
          /\ paso("conectar", ok)
          /\ IF ok THEN pc' = "pdf" /\ UNCHANGED excepcion ELSE lanzar
    /\ UNCHANGED << disco, duracion, n_dif, escritos, registros, varsServicio, varsDiff >>

descargar_pdf ==
    /\ pc = "pdf"
    /\ \E ok \in BOOLEAN :
          /\ paso("pdf", ok)
          /\ disco' = descargar_archivo(modulo, disco, PDF_TEMP, ok)
          /\ IF ok THEN pc' = "audio" /\ UNCHANGED excepcion ELSE lanzar
    /\ UNCHANGED << duracion, n_dif, escritos, registros, varsServicio, varsDiff >>

Duraciones == { MAX_DURACION_AUDIO, MAX_DURACION_AUDIO + 1 }

descargar_audio ==
    /\ pc = "audio"
    /\ \E ok \in BOOLEAN :
          /\ paso("audio", ok)
          /\ disco' = descargar_archivo(modulo, disco, AUDIO_TEMP, ok)
          /\ IF ok
             THEN /\ pc' = IF modulo = "appweb" THEN "duracion" ELSE "extraer"
                  /\ \E d \in Duraciones : duracion' = d
                  /\ UNCHANGED excepcion
             ELSE lanzar /\ UNCHANGED duracion
    /\ UNCHANGED << n_dif, escritos, registros, varsServicio, varsDiff >>

\* analisis_appweb.py: librosa.get_duration may raise; a long audio raises.
verificar_duracion ==
    /\ pc = "duracion"
    /\ \E leido \in BOOLEAN :
          LET ok == leido /\ ~(duracion > MAX_DURACION_AUDIO)
          IN  /\ paso("duracion", ok)
              /\ IF ok THEN pc' = "extraer" /\ UNCHANGED excepcion ELSE lanzar
    /\ UNCHANGED << disco, duracion, n_dif, escritos, registros, varsServicio, varsDiff >>

\* extraer_texto_pdf returns "" when it fails, and the job goes on.
extraer_texto_pdf ==
    /\ pc = "extraer"
    /\ \E ok \in BOOLEAN : paso("extraer", ok)
    /\ pc' = "transcribir"
    /\ UNCHANGED << disco, duracion, n_dif, escritos, registros, excepcion, varsServicio,
                    varsDiff >>

\* transcribir_audio returns None when it fails, and the caller raises.
transcribir_audio ==
    /\ pc = "transcribir"
    /\ \E ok \in BOOLEAN :
          /\ paso("transcribir", ok)
          /\ IF ok THEN pc' = "analizar" /\ UNCHANGED excepcion ELSE lanzar
    /\ UNCHANGED << disco, duracion, n_dif, escritos, registros, varsServicio, varsDiff >>

\* analizar_diferencias and calcular_fluidez: the job's alignment step.  The
\* number of non-equal opcodes it finds is all the later steps use.  The
\* division by a duration of zero in calcular_fluidez raises out of the
\* job in main.py and transcribir.py; analisis_appweb.py catches it inside
\* the function and goes on.
analizar ==
    /\ pc = "analizar"
    /\ \E ok \in BOOLEAN :
          /\ paso("analizar", ok)
          /\ IF ok \/ modulo = "appweb"
             THEN /\ \E n \in 0 .. MaxDif : n_dif' = n
                  /\ pc' = IF modulo = "appweb" THEN "guardar_precision"
                           ELSE "guardar_errores"
                  /\ UNCHANGED excepcion
             ELSE lanzar /\ UNCHANGED n_dif
    /\ UNCHANGED << disco, duracion, escritos, registros, varsServicio, varsDiff >>

\* The table each module inserts into at a persistence step.
tabla(m, p) ==
    IF p = "guardar_errores"
    THEN (IF m = "main" THEN "errors_recurrentes" ELSE "errores_recurrentes")
    ELSE IF p = "guardar_fluidez"
    THEN (IF m = "main" THEN "fluidex_lectora" ELSE "fluidez_lectora")
    ELSE "precision_pronunciacion"

\* The step after persistence step p, in each module's order of writes.
despues_de(m, p) ==
    IF m = "main"
    THEN (IF p = "guardar_errores" THEN "guardar_fluidez"
          ELSE IF p = "guardar_fluidez" THEN "guardar_precision"
          ELSE "limpiar")
    ELSE IF m = "appweb"
    THEN (IF p = "guardar_precision" THEN "guardar_fluidez"
          ELSE IF p = "guardar_fluidez" THEN "guardar_errores"
          ELSE "finally")
    ELSE (IF p = "guardar_errores" THEN "guardar_precision"
          ELSE IF p = "guardar_precision" THEN "guardar_fluidez"
          ELSE "log")

\* Where a failed insert of step p leads: main.py lets the exception reach
\* the job's except clause, guardar_resultados catches it and returns,
\* subir_estadisticas catches it and goes on with the next table.
tras_fallo_guardar(m, p) ==
    IF m \in Web THEN "finally" ELSE despues_de(m, p)

\* The discrepancy list analizar_diferencias returns for n non-equal
\* opcodes, each record named by the place of its opcode among them:
\* diferencias[:10] in analisis_appweb.py, all of them elsewhere.
diferencias_de(m, n) ==
    IF m = "appweb" THEN Primeros([ k \in 1 .. n |-> k ], LIMITE_DIFERENCIAS)
    ELSE [ k \in 1 .. n |-> k ]

\* Mutant of a_guardar: the loop goes over every record it is given.
a_guardar_todas(m, difs) == difs

\* The records the persistence loop goes over: diferencias[:5] in
\* analisis_appweb.py, every record elsewhere.
a_guardar(m, difs) ==
    IF m = "appweb" THEN Primeros(difs, LIMITE_GUARDADOS) ELSE difs

\* Insert calls into the recurring-errors table for n non-equal opcodes:
\* one batch if there is any record (main.py), one call per record of the
\* loop (analisis_appweb.py, transcribir.py).
a_insertar(m, n) ==
    IF m = "main" THEN (IF n > 0 THEN 1 ELSE 0)
    ELSE Len(a_guardar(m, diferencias_de(m, n)))

\* The records the k-th of these calls carries: main.py sends every
\* discrepancy in its one batch, grouped by word pair; the loops send the
\* k-th record.
lote(m, n, k) ==
    IF m = "main" THEN diferencias_de(m, n)
    ELSE << a_guardar(m, diferencias_de(m, n))[k] >>

insertados ==
    Cardinality({ k \in 1 .. Len(escritos) :
                    escritos[k] = tabla(modulo, "guardar_errores") })

\* One insert(...).execute() of persistence step p.
insertar(p, ultimo) ==
    \E ok \in BOOLEAN :
       /\ paso(p, ok)
       /\ escritos' = IF ok THEN Append(escritos, tabla(modulo, p)) ELSE escritos
       /\ registros' = IF ok /\ p = "guardar_errores"
                       THEN registros \o lote(modulo, n_dif, insertados + 1)
                       ELSE registros
       /\ pc' = IF ~ok THEN tras_fallo_guardar(modulo, p)
                ELSE IF ultimo THEN despues_de(modulo, p)
                ELSE p
       /\ excepcion' = (~ok /\ modulo = "main")

guardar_errores ==
    /\ pc = "guardar_errores"
    /\ IF insertados < a_insertar(modulo, n_dif)
       THEN insertar("guardar_errores", insertados + 1 = a_insertar(modulo, n_dif))
       ELSE /\ pc' = despues_de(modulo, "guardar_errores")
            /\ UNCHANGED << escritos, registros, traza, fallo, excepcion >>
    /\ UNCHANGED << disco, duracion, n_dif, varsServicio, varsDiff >>

guardar_fluidez ==
    /\ pc = "guardar_fluidez"
    /\ insertar("guardar_fluidez", TRUE)
    /\ UNCHANGED << disco, duracion, n_dif, varsServicio, varsDiff >>

guardar_precision ==
    /\ pc = "guardar_precision"
    /\ insertar("guardar_precision", TRUE)
    /\ UNCHANGED << disco, duracion, n_dif, varsServicio, varsDiff >>

\* transcribir.py: the local log file, in its own try, ends the script.
guardar_log ==
    /\ pc = "log"
    /\ \E ok \in BOOLEAN : paso("log", ok)
    /\ pc' = "exit"
    /\ UNCHANGED << disco, duracion, n_dif, escritos, registros, excepcion, varsServicio,
                    varsDiff >>

\* main.py: os.remove(PDF_TEMP); os.remove(AUDIO_TEMP), last in the try body.
limpiar ==
    /\ pc = "limpiar"
    /\ disco' = disco \ { PDF_TEMP, AUDIO_TEMP }
    /\ pc' = "finally"
    /\ UNCHANGED << duracion, n_dif, escritos, registros, traza, fallo, excepcion,
                    varsServicio, varsDiff >>

\* The files on disk after the finally clause: analisis_appweb.py removes
\* those that exist, main.py removes nothing there.
disco_tras_finally(m, d) ==
    IF m = "appweb" THEN d \ { PDF_TEMP, AUDIO_TEMP } ELSE d

\* Mutant of bandera_tras_finally: the flag is cleared at the end of the
\* try body, so an exception leaves it as it was.
bandera_sin_finally(bandera, exc) == IF exc THEN bandera ELSE "False"

\* app.state.analisis_en_curso = False, in the finally clause.
bandera_tras_finally(bandera, exc) == "False"

\* The except and finally clauses of realizar_analisis_completo.
finalizar ==
    /\ pc = "finally"
    /\ disco' = disco_tras_finally(modulo, disco)
    /\ analisis_en_curso' = bandera_tras_finally(analisis_en_curso, excepcion)
    /\ pc' = "idle"
    /\ terminados' = terminados + 1
    /\ UNCHANGED << duracion, n_dif, escritos, registros, traza, fallo, excepcion,
                    programadas, respuesta, solicitudes, varsDiff >>

\* The script's process ends: exit(), or the end of __main__.
salir ==
    /\ pc = "exit"
    /\ pc' = "idle"
    /\ terminados' = terminados + 1
    /\ UNCHANGED << disco, duracion, n_dif, escritos, registros, traza, fallo, excepcion,
                    analisis_en_curso, programadas, respuesta, solicitudes,
                    varsDiff >>

(***************************************************************************)
(* Part III.  calcular_fluidez.                                            *)
(*                                                                         *)
(* Times are counted in half seconds, which binary floats hold exactly, so *)
(* the subtractions and comparisons of the code are exact.  The rate and   *)
(* the duration returned are in hundredths.                                *)
(***************************************************************************)
LIMITE_PPM == 300              \* min(round(...), 300)
LIMITE_PAUSAS == 20            \* min(pausas, 20)

\* The integer nearest to num / den (den > 0), a tie going to the even one.
redondear(num, den) ==
    LET q == num \div den
        r == num % den
    IN  IF 2 * r > den \/ (2 * r = den /\ q % 2 = 1) THEN q + 1 ELSE q

\* duracion = transcripcion['segments'][-1]['end'] if transcripcion['segments'] else 1
duracion_de(segs) == IF segs # << >> THEN segs[Len(segs)].end ELSE 2

\* round(n_palabras / (duracion / 60), 2) for duracion > 0: n words in dur
\* half seconds are 120 * n / dur words per minute.
calc_ppm(n, dur) == redondear(12000 * n, dur)

\* inicio - fin_anterior > 1.5 (seconds: 3 half seconds)
es_pausa(inicio, fin_anterior) == inicio - fin_anterior > 3

\* The loop of main.py and analisis_appweb.py over range(1, len(segments)).
contar_pausas(segs) ==
    Cardinality({ i \in 2 .. Len(segs) : es_pausa(segs[i].start, segs[i - 1].end) })

\* transcribir.py: seg.get('prev_end', 0), after prev_end was set on every
\* segment but the first.
prev_end(segs, i) == IF i > 1 THEN segs[i - 1].end ELSE 0

\* transcribir.py: the segments whose start is more than 1.5 s after prev_end.
contar_pausas_transcribir(segs) ==
    Cardinality({ i \in 1 .. Len(segs) : es_pausa(segs[i].start, prev_end(segs, i)) })

\* The dictionary calcular_fluidez returns.
resumen(ppm, pausas, dur) ==
    [ hecho                   |-> TRUE,
      error                   |-> "",
      palabras_por_minuto     |-> ppm,
      numero_pausas           |-> pausas,
      duracion_total_segundos |-> dur ]

\* n_palabras / (duracion / 60) with duracion = 0: the call raises.
division_por_cero == [ hecho |-> TRUE, error |-> "ZeroDivisionError" ]

\* calcular_fluidez of main.py, for n words and a duration of dur.
fluidez_main(n, segs, dur) ==
    IF dur = 0 THEN division_por_cero
    ELSE resumen(calc_ppm(n, dur), contar_pausas(segs), 50 * dur)

\* calcular_fluidez of transcribir.py.
fluidez_transcribir(n, segs, dur) ==
    IF dur = 0 THEN division_por_cero
    ELSE resumen(calc_ppm(n, dur), contar_pausas_transcribir(segs), 50 * dur)

\* calcular_fluidez of analisis_appweb.py: the three values are capped, and
\* the except clause answers any exception with a summary of zeros.
fluidez_appweb(n, segs, dur) ==
    IF dur = 0 THEN resumen(0, 0, 0)
    ELSE resumen(Min(calc_ppm(n, dur), 100 * LIMITE_PPM),
                 Min(contar_pausas(segs), LIMITE_PAUSAS),
                 50 * Min(dur, 2 * MAX_DURACION_AUDIO))

calcular_fluidez(m, pal, segs) ==
    IF m = "main" THEN fluidez_main(Len(pal), segs, duracion_de(segs))
    ELSE IF m = "appweb" THEN fluidez_appweb(Len(pal), segs, duracion_de(segs))
    ELSE fluidez_transcribir(Len(pal), segs, duracion_de(segs))

(***************************************************************************)
(* Specifications.                                                         *)
(***************************************************************************)
InitTrabajo ==
    /\ pc = "idle"
    /\ disco = {}
    /\ duracion = 0
    /\ n_dif = 0
    /\ escritos = << >>
    /\ registros = << >>
    /\ traza = << >>
    /\ fallo = 0
    /\ excepcion = FALSE

InitServicio ==
    /\ analisis_en_curso = "ausente"
    /\ programadas = 0
    /\ respuesta = 0
    /\ solicitudes = 0
    /\ terminados = 0

\* No call of calcular_fluidez is made.
SinFluidez ==
    /\ palabras = << >>
    /\ segments = << >>
    /\ fluidez = [ hecho |-> FALSE ]

\* The service (or the script) after start-up; no call of Part I is made.
Init ==
    /\ modulo \in Modulos
    /\ ref_words = << >>
    /\ audio_words = << >>
    /\ resultado = [ hecho |-> FALSE ]
    /\ SinFluidez
    /\ InitServicio
    /\ InitTrabajo

Trabajo ==
    \/ iniciar_tarea
    \/ conectar_supabase
    \/ descargar_pdf
    \/ descargar_audio
    \/ verificar_duracion
    \/ extraer_texto_pdf
    \/ transcribir_audio
    \/ analizar
    \/ guardar_errores
    \/ guardar_fluidez
    \/ guardar_precision
    \/ guardar_log
    \/ limpiar
    \/ finalizar
    \/ salir

Next ==
    \/ programar_analisis
    \/ ejecutar_script
    \/ Trabajo

Spec == Init /\ [][Next]_vars

\* The loop starts an added task once the response is out, and every step
\* of the job is a call that returns or raises.
FairSpec == Spec /\ WF_vars(Trabajo)

\* Part I: one call of analizar_diferencias on enumerated token sequences,
\* and on a reference one word longer than the word limit.
Secuencias == UNION { [ 1 .. n -> Palabras ] : n \in 0 .. MaxLen }

RefLarga == [ n \in 1 .. LIMITE_PALABRAS + 1 |-> ToString(n) ]

Entradas ==
    (Secuencias \X Secuencias)
        \cup { << RefLarga, << >> >>, << RefLarga, RefLarga >> }

InitDiff ==
    /\ modulo \in Modulos
    /\ \E e \in Entradas : ref_words = e[1] /\ audio_words = e[2]
    /\ resultado = [ hecho |-> FALSE ]
    /\ SinFluidez
    /\ InitServicio
    /\ InitTrabajo

llamar_analizar_diferencias ==
    /\ ~resultado.hecho
    /\ resultado' = analizar_diferencias(modulo, ref_words, audio_words)
    /\ UNCHANGED << modulo, ref_words, audio_words, varsFluidez, varsServicio,
                    varsTrabajo >>

NextDiff == llamar_analizar_diferencias

SpecDiff == InitDiff /\ [][NextDiff]_vars

\* Part III: one call of calcular_fluidez on enumerated transcriptions: the
\* segments follow one another in time, each ending no earlier than it
\* starts; and on one with more pauses than the pause limit.
Tramos ==
    { [ start |-> s, end |-> e ] : s \in 0 .. MaxTiempo, e \in 0 .. MaxTiempo }

\* The segments that may follow the sequence q.
Siguientes(q) ==
    { u \in Tramos : /\ u.start <= u.end
                     /\ q # << >> => q[Len(q)].end <= u.start }

RECURSIVE SegmentosDe(_)
SegmentosDe(k) ==
    IF k = 0 THEN { << >> }
    ELSE UNION { { Append(q, u) : u \in Siguientes(q) } : q \in SegmentosDe(k - 1) }

Segmentos == UNION { SegmentosDe(k) : k \in 0 .. MaxSeg }

SegmentosLargos ==
    [ i \in 1 .. LIMITE_PAUSAS + 2 |-> [ start |-> 4 * i, end |-> 4 * i ] ]

Dichas == { [ i \in 1 .. n |-> "el" ] : n \in 0 .. MaxPalabras }

InitFluidez ==
    /\ modulo \in Modulos
    /\ ref_words = << >>
    /\ audio_words = << >>
    /\ resultado = [ hecho |-> FALSE ]
    /\ palabras \in Dichas
    /\ segments \in Segmentos \cup { SegmentosLargos }
    /\ fluidez = [ hecho |-> FALSE ]
    /\ InitServicio
    /\ InitTrabajo

llamar_calcular_fluidez ==
    /\ ~fluidez.hecho
    /\ fluidez' = calcular_fluidez(modulo, palabras, segments)
    /\ UNCHANGED << modulo, ref_words, audio_words, resultado, palabras, segments,
                    varsServicio, varsTrabajo >>

NextFluidez == llamar_calcular_fluidez

SpecFluidez == InitFluidez /\ [][NextFluidez]_vars

(***************************************************************************)
(* Properties of the service (Spec, FairSpec).                             *)
(***************************************************************************)

\* Jobs scheduled or running.
en_vuelo == programadas + (IF pc = "idle" THEN 0 ELSE 1)

\* C1: under any interleaving of submissions and job completions, at most
\* one analysis job is scheduled or running at any time.
C1_UnTrabajoALaVez == modulo \in Web => en_vuelo <= 1

\* A submission was rejected while the second job of the run was in flight.
C1_Witness ==
    /\ modulo \in Web
    /\ terminados >= 1
    /\ en_vuelo = 1
    /\ solicitudes >= 3
    /\ respuesta # 200

\* C2: a submission that arrives while the flag is set is answered with
\* HTTP 429, schedules no job and leaves the flag as it was.
C2_RechazoOcupado ==
    [][ (solicitudes' = solicitudes + 1 /\ analisis_en_curso = "True")
          => /\ respuesta' = 429
             /\ programadas' = programadas
             /\ analisis_en_curso' = analisis_en_curso ]_vars

\* C3: every accepted submission (the flag set) is eventually followed by
\* the flag being cleared, whichever step of the job fails or succeeds.
C3_BanderaSeLibera ==
    (analisis_en_curso = "True") ~> (analisis_en_curso = "False")

\* A job ended on an exception and the flag is clear.
C3_Witness ==
    /\ modulo \in Web
    /\ pc = "idle"
    /\ terminados >= 1
    /\ excepcion
    /\ fallo > 0
    /\ analisis_en_curso = "False"

\* C4: when a job of a service has ended, on whichever path, neither
\* temporary file is left on disk.
C4_SinTemporales ==
    (modulo \in Web /\ pc = "idle" /\ terminados > 0) => disco = {}

\* C5: once a step of a job has failed, no later pipeline step of that job
\* is executed: the failed step is the last one of the job's trace.
C5_FalloAborta == fallo > 0 => Len(traza) = fallo

(***************************************************************************)
(* Properties of analizar_diferencias (SpecDiff).                          *)
(***************************************************************************)

\* The opcodes ops cover [0, la) and [0, lb) end to end: the first starts
\* at (0, 0), each starts where the one before ended, the last ends at
\* (la, lb), and every index of either side lies in exactly one of them.
Particion(ops, la, lb) ==
    /\ \A n \in 1 .. Len(ops) : ops[n][2] <= ops[n][3] /\ ops[n][4] <= ops[n][5]
    /\ IF ops = << >> THEN la = 0 /\ lb = 0
       ELSE /\ ops[1][2] = 0 /\ ops[1][4] = 0
            /\ ops[Len(ops)][3] = la /\ ops[Len(ops)][5] = lb
    /\ \A n \in 1 .. Len(ops) - 1 :
          ops[n + 1][2] = ops[n][3] /\ ops[n + 1][4] = ops[n][5]
    /\ \A i \in 0 .. la - 1 :
          Cardinality({ n \in 1 .. Len(ops) : ops[n][2] <= i /\ i < ops[n][3] }) = 1
    /\ \A j \in 0 .. lb - 1 :
          Cardinality({ n \in 1 .. Len(ops) : ops[n][4] <= j /\ j < ops[n][5] }) = 1

\* C6: the opcodes analizar_diferencias goes through partition both token
\* sequences exactly (all of R and H in main.py and transcribir.py, the
\* words kept by the word limit in analisis_appweb.py).
C6_OpcodesParticionan ==
    resultado.hecho =>
        /\ modulo # "appweb" => resultado.palabras = << ref_words, audio_words >>
        /\ Particion(resultado.opcodes,
                     Len(resultado.palabras[1]), Len(resultado.palabras[2]))

\* main.py aligned sequences that need a replace among three or more opcodes.
C6_Witness ==
    /\ resultado.hecho
    /\ modulo = "main"
    /\ Len(resultado.opcodes) >= 3
    /\ \E n \in 1 .. Len(resultado.opcodes) : resultado.opcodes[n][1] = "replace"

RECURSIVE SumaSeq(_)
SumaSeq(q) == IF q = << >> THEN 0 ELSE Head(q) + SumaSeq(Tail(q))

\* Sum of (i2 - i1) over the equal opcodes.
SumaCorrectas(ops) ==
    SumaSeq([ n \in 1 .. Len(ops) |->
                IF ops[n][1] = "equal" THEN ops[n][3] - ops[n][2] ELSE 0 ])

\* Sum of max(i2 - i1, j2 - j1) over the non-equal opcodes.
SumaIncorrectas(ops) ==
    SumaSeq([ n \in 1 .. Len(ops) |->
                IF ops[n][1] # "equal"
                THEN Max(ops[n][3] - ops[n][2], ops[n][5] - ops[n][4]) ELSE 0 ])

EsRedondeo(p, num, den) ==
    \/ 2 * (p * den - 10000 * num) < den /\ 2 * (10000 * num - p * den) < den
    \/ /\ 2 * (p * den - 10000 * num) \in { den, 0 - den }
       /\ p % 2 = 0

\* C8: precision is correct / (correct + incorrect) * 100 rounded to two
\* decimals when correct + incorrect > 0, and 0 when both counts are zero,
\* for the counts the same call returns.
C8_Precision ==
    resultado.hecho =>
        IF resultado.correctas + resultado.incorrectas > 0
        THEN EsRedondeo(resultado.precision, resultado.correctas,
                        resultado.correctas + resultado.incorrectas)
        ELSE resultado.precision = 0

\* Two words right and one wrong: 66.67.
C8_Witness ==
    /\ resultado.hecho
    /\ resultado.correctas = 2
    /\ resultado.incorrectas = 1
    /\ resultado.precision = 6667

\* C9, as stated: for every R, aligning R against H = R yields one equal
\* opcode spanning both sequences, no discrepancy and a precision of 100.
C9_Identicas ==
    (resultado.hecho /\ ref_words = audio_words) =>
        /\ resultado.opcodes
              = << << "equal", 0, Len(ref_words), 0, Len(audio_words) >> >>
        /\ resultado.diferencias = << >>
        /\ resultado.precision = 10000

\* The words of a text that a variant aligns.
Alineadas(m, w) == IF m = "appweb" THEN Primeros(w, LIMITE_PALABRAS) ELSE w

\* C9, amended: for every non-empty R, aligning R against H = R yields one
\* equal opcode spanning the aligned words of both (all of them; the first
\* 500 in analisis_appweb.py), no discrepancy and a precision of 100; for
\* empty R = H there is no opcode and the precision is 0.
C9_IdenticasNoVacias ==
    (resultado.hecho /\ ref_words = audio_words) =>
        /\ resultado.diferencias = << >>
        /\ IF ref_words # << >>
           THEN /\ resultado.opcodes
                     = << << "equal", 0, Len(Alineadas(modulo, ref_words)),
                             0, Len(Alineadas(modulo, audio_words)) >> >>
                /\ resultado.precision = 10000
           ELSE /\ resultado.opcodes = << >>
                /\ resultado.precision = 0

\* A reference with a repeated word was aligned against itself.
C9_Witness ==
    /\ resultado.hecho
    /\ ref_words = audio_words
    /\ Len(ref_words) = MaxLen
    /\ ref_words[1] = ref_words[MaxLen]

\* C10, as stated: for non-empty R and empty H the result is one delete
\* discrepancy holding all of R joined, correct count 0 and precision 0.
C10_HipotesisVacia ==
    (resultado.hecho /\ ref_words # << >> /\ audio_words = << >>) =>
        /\ resultado.diferencias
              = << [ tipo |-> "delete", palabra_original |-> join(ref_words),
                     palabra_dicha |-> "" ] >>
        /\ resultado.correctas = 0
        /\ resultado.precision = 0

\* C10, amended: the one delete discrepancy holds the aligned words of R
\* joined (all of R; its first 500 words in analisis_appweb.py).
C10_HipotesisVaciaAlineada ==
    (resultado.hecho /\ ref_words # << >> /\ audio_words = << >>) =>
        /\ resultado.diferencias
              = << [ tipo |-> "delete",
                     palabra_original |-> join(Alineadas(modulo, ref_words)),
                     palabra_dicha |-> "" ] >>
        /\ resultado.correctas = 0
        /\ resultado.precision = 0

\* analisis_appweb.py was given a reference longer than its word limit
\* and an empty hypothesis.
C10_Witness ==
    /\ resultado.hecho
    /\ modulo = "appweb"
    /\ Len(ref_words) > LIMITE_PALABRAS
    /\ audio_words = << >>

(***************************************************************************)
(* Properties of calcular_fluidez (SpecFluidez).                           *)
(***************************************************************************)

\* The indices i >= 1 (from 0) at which segments[i] starts more than 1.5 s
\* after segments[i-1] ended.
PausasEntrePares(segs) ==
    { i \in 2 .. Len(segs) : segs[i].start - segs[i - 1].end > 3 }

\* C11: for every segment sequence, the pause count calcular_fluidez returns
\* is the number of indices i >= 1 with segments[i].start - segments[i-1].end
\* > 1.5; the first segment never counts and the count is not capped.
C11_PausasEntrePares ==
    (fluidez.hecho /\ fluidez.error = "") =>
        fluidez.numero_pausas = Cardinality(PausasEntrePares(segments))

\* p is num / den rounded to the nearest integer, a tie going to the even.
EsCercano(p, num, den) ==
    \/ 2 * (p * den - num) < den /\ 2 * (num - p * den) < den
    \/ 2 * (p * den - num) \in { den, 0 - den } /\ p % 2 = 0

\* p hundredths is round(n / (dur / 60), 2) for a duration of dur half
\* seconds, or the ceiling of 300 that analisis_appweb.py puts on it.
EsRitmo(m, p, n, dur) ==
    \/ EsCercano(p, 12000 * n, dur)
    \/ m = "appweb" /\ p = 100 * LIMITE_PPM /\ 12000 * n > p * dur

\* C12: calcular_fluidez never fails with a division error: for no segment
\* the duration is the sentinel of 1 second and the rate is computed from
\* it, and for segments (the last may end at 0) a summary is returned whose
\* duration is the end of the last segment and whose rate is computed from it.
C12_SinErrorDeDivision ==
    fluidez.hecho =>
        /\ fluidez.error = ""
        /\ fluidez.duracion_total_segundos = 50 * duracion_de(segments)
        /\ segments = << >> => fluidez.duracion_total_segundos = 100
        /\ duracion_de(segments) > 0 =>
              EsRitmo(modulo, fluidez.palabras_por_minuto, Len(palabras),
                      duracion_de(segments))

(***************************************************************************)
(* Further properties of the service (Spec).                               *)
(***************************************************************************)

\* C13: a job whose downloaded audio is longer than MAX_DURACION_AUDIO is
\* rejected after the download: it is never transcribed and it writes no
\* record.
C13_AudioLargoRechazado ==
    (modulo \in Web /\ duracion > MAX_DURACION_AUDIO) =>
        /\ \A k \in 1 .. Len(traza) : traza[k] # "transcribir"
        /\ escritos = << >>

\* The first k non-equal opcodes, in alignment order.
PrimerosOpcodes(k) == [ i \in 1 .. k |-> i ]

\* A job has ended and no other has started since.
TrabajoTerminado == pc = "idle" /\ terminados > 0

\* C14, as stated: every job of analisis_appweb.py writes at most 5
\* discrepancy records, and the records it has written are exactly the
\* first min(5, n) non-equal opcodes in alignment order.
C14_CincoExactos ==
    modulo = "appweb" =>
        /\ Len(registros) <= 5
        /\ TrabajoTerminado => registros = PrimerosOpcodes(Min(5, n_dif))

\* C14, amended: every job of analisis_appweb.py writes at most 5
\* discrepancy records; those written are the first k non-equal opcodes in
\* alignment order for some k <= min(5, n), and k = min(5, n) when the job
\* has ended with no step failed.
C14_PrimerosCinco ==
    modulo = "appweb" =>
        /\ Len(registros) <= 5
        /\ Len(registros) <= Min(5, n_dif)
        /\ registros = PrimerosOpcodes(Len(registros))
        /\ (TrabajoTerminado /\ fallo = 0 /\ traza # << >>) =>
              registros = PrimerosOpcodes(Min(5, n_dif))

\* A job of analisis_appweb.py with more than five non-equal opcodes ended
\* with no failed step and five records written.
C14_Witness ==
    /\ modulo = "appweb"
    /\ TrabajoTerminado
    /\ fallo = 0
    /\ n_dif > 5
    /\ registros = << 1, 2, 3, 4, 5 >>
    /\ escritos[Len(escritos)] = "errores_recurrentes"

\* C15: whenever the busy flag is True, exactly one job is scheduled or
\* running; the flag is never True with no pending or running job.
C15_BanderaConTrabajo ==
    (modulo \in Web /\ analisis_en_curso = "True") => en_vuelo = 1

\* The flag is True while the task added by the second accepted submission
\* has not started yet.
C15_Witness ==
    /\ modulo \in Web
    /\ analisis_en_curso = "True"
    /\ terminados = 1
    /\ programadas = 1
    /\ pc = "idle"
====
